---- MODULE Spec2Model ----
(***************************************************************************)
(* Model of the Tado Local Offset coordinator                              *)
(* (custom_components/tado_local_offset).                                  *)
(*                                                                         *)
(* Units.  Temperatures are integers in tenths of a degree Celsius         *)
(* (21.0 C = 210); sensor readings and setpoints have a resolution of      *)
(* 0.1 C.  Times are integers in seconds.  Heating rates are integers in   *)
(* thousandths of a degree per hour.                                       *)
(***************************************************************************)
EXTENDS Integers, Sequences, FiniteSets, TLC

(***************************************************************************)
(* Python None for a float field / for a datetime field.                   *)
(***************************************************************************)
None == -9999
NoTime == -1

(***************************************************************************)
(* Sensor states that are not numbers.                                     *)
(***************************************************************************)
EntityMissing == -9001
Unavailable == -9002
NonNumeric == -9003

(***************************************************************************)
(* Bounds of the model.                                                    *)
(***************************************************************************)
MaxMinutes == 15
MaxSwitches == 1
MaxLearnTicks == 2
MaxPreheatTicks == 1
MaxReconcileTicks == 4
MaxSuspended == 2
MaxSampleTicks == 3
MaxDropTicks == 3
MaxEchoTicks == 4
MaxInFlight == 2
MaxRangeTicks == 2
MaxAsyncTicks == 2

(***************************************************************************)
(* Program constants.                                                      *)
(***************************************************************************)
DEFAULT_DESIRED_TEMP == 200
DEFAULT_HEATING_RATE == 1000
MIN_TEMP == 50
MAX_TEMP == 250
MAX_HEATING_CYCLES == 3
MIN_HEATING_RATE == 100
MAX_HEATING_RATE == 5000
TEMP_DROP_WINDOW_MINUTES == 15
TEMP_DROP_RATE_THRESHOLD == 1
external_change_cooldown == 90
PlausibleMin == 50
BootstrapThreshold == 1
ExternalChangeThreshold == 4
SetpointMin == 50
SetpointMax == 250
MinLearnSeconds == 1188
MinLearnRise == 1

(***************************************************************************)
(* Arithmetic helpers.                                                     *)
(***************************************************************************)
Abs(x) == IF x < 0 THEN -x ELSE x
Min(a, b) == IF a < b THEN a ELSE b
Max(a, b) == IF a > b THEN a ELSE b

RECURSIVE Sum(_)
Sum(s) == IF s = << >> THEN 0 ELSE Head(s) + Sum(Tail(s))

(***************************************************************************)
(* round(raw_target * 2) / 2 on tenths: the nearest multiple of 0.5.  A    *)
(* value in tenths is never exactly halfway between two multiples of 0.5,  *)
(* so the tie rule of round() does not come into play.                     *)
(***************************************************************************)
\* variant: truncates to the multiple of 0.5 below instead of the nearest
RoundHalfDown(x) == 5 * (x \div 5)
RoundHalf(x) == 5 * ((2 * x + 5) \div 10)

(***************************************************************************)
(* round(x, 1), applied to a value given in hundredths of a degree; the    *)
(* result is in tenths.  tado_target - offset is a difference of values    *)
(* with 0.1 resolution, so its hundredths digit is 0.                      *)
(***************************************************************************)
Round1(h) == (h + 5) \div 10

(***************************************************************************)
(* max(5.0, min(25.0, compensated_target))                                 *)
(***************************************************************************)
ClampSetpoint(x) == Max(SetpointMin, Min(SetpointMax, x))

VARIABLES
    st,          \* the coordinator: TadoLocalOffsetData fields and private fields
    suspended,   \* the engine invocations waiting at the set_temperature service call
    conf,        \* the configuration of the room (entry data / options)
    now,         \* dt_util.utcnow(), seconds
    call,        \* history: the decision-engine invocation of the last step
    prev,        \* history: the decision-engine invocation before that
    cycle,       \* history: the successful update cycle of the last step
    lastDispatch, \* history: time of the last dispatched command
    switches,    \* history: how often one of the three switches was operated
    note         \* history: the request made by the last step and its result

vars == << st, suspended, conf, now, call, prev, cycle, lastDispatch, switches, note >>

(***************************************************************************)
(* TadoLocalOffsetData() and the private fields set by __init__, after     *)
(* async_load_data has read the history kept in the Store.  stored is the  *)
(* content of the Store ({"history": [...]}); a Store that was never       *)
(* written loads like one holding an empty history.                        *)
(***************************************************************************)
InitialState(history) ==
    [ external_temp |-> None,
      tado_temp |-> None,
      tado_target |-> DEFAULT_DESIRED_TEMP,
      desired_temp |-> DEFAULT_DESIRED_TEMP,
      offset |-> 0,
      compensated_target |-> DEFAULT_DESIRED_TEMP,
      hvac_mode |-> "off",
      hvac_action |-> "idle",
      window_open |-> FALSE,
      heating_rate |-> DEFAULT_HEATING_RATE,
      preheat_minutes |-> 0,
      compensation_enabled |-> TRUE,
      battery_saver_enabled |-> TRUE,
      window_override |-> FALSE,
      heating_history |-> history,
      next_preheat_start |-> NoTime,
      next_preheat_temp |-> None,
      last_compensation_time |-> NoTime,
      last_sent_compensated_target |-> None,
      heating_start_time |-> NoTime,
      heating_start_temp |-> None,
      temp_history |-> << >>,
      stored |-> history ]

(***************************************************************************)
(* async_calculate_and_apply_compensation.  s is the coordinator, t the    *)
(* value of utcnow() and raises tells whether the set_temperature service  *)
(* call raises.  The result names the new coordinator, the way the call    *)
(* ended and the setpoint handed to the service call.                      *)
(***************************************************************************)
CompensatedTarget(s) ==
    LET raw_target == IF s.external_temp >= s.desired_temp
                         THEN s.desired_temp
                         ELSE s.desired_temp + s.offset
    IN  ClampSetpoint(RoundHalf(raw_target))

\* variant: backoff_minutes is added as seconds
BackoffActiveInSeconds(s, cf, t) ==
    /\ s.battery_saver_enabled
    /\ s.last_compensation_time # NoTime
    /\ t < s.last_compensation_time + cf.backoff_minutes

BackoffActive(s, cf, t) ==
    /\ s.battery_saver_enabled
    /\ s.last_compensation_time # NoTime
    /\ t < s.last_compensation_time + cf.backoff_minutes * 60

\* variant: a change equal to the tolerance is skipped as well
ToleranceGateInclusive(force, diff, cf) == ~force /\ diff <= cf.tolerance

ToleranceGate(force, diff, cf) == ~force /\ diff < cf.tolerance

Dispatched(s, t, compensated_target) ==
    [s EXCEPT !.last_sent_compensated_target = compensated_target,
              !.last_compensation_time = t,
              !.compensated_target = compensated_target]

\* variant: the override is not consulted
WindowBlocksIgnoringOverride(s) == s.window_open
WindowBlocks(s) == s.window_open /\ ~s.window_override

\* the except branch: the error is logged
\* variant: the three fields are recorded although the call raised
OnServiceErrorRecords(s, t, compensated_target) ==
    [s EXCEPT !.last_sent_compensated_target = compensated_target,
              !.last_compensation_time = t,
              !.compensated_target = compensated_target]

OnServiceError(s, t, compensated_target) == s

Compensation(s, cf, force, t, raises) ==
    IF ~force /\ ~s.compensation_enabled
      THEN [st |-> s, outcome |-> "disabled", cmd |-> None]
    ELSE IF ~force /\ WindowBlocks(s)
      THEN [st |-> s, outcome |-> "window", cmd |-> None]
    ELSE IF ~force /\ BackoffActive(s, cf, t)
      THEN [st |-> s, outcome |-> "backoff", cmd |-> None]
    ELSE IF s.external_temp = None
      THEN [st |-> s, outcome |-> "TypeError", cmd |-> None]
    ELSE LET compensated_target == CompensatedTarget(s)
             diff == Abs(compensated_target - s.tado_target)
         IN  IF ToleranceGate(force, diff, cf)
               THEN [st |-> s, outcome |-> "tolerance", cmd |-> None]
             ELSE IF raises
               THEN [st |-> OnServiceError(s, t, compensated_target),
                     outcome |-> "failed", cmd |-> compensated_target]
             ELSE [st |-> Dispatched(s, t, compensated_target),
                   outcome |-> "sent", cmd |-> compensated_target]

(***************************************************************************)
(* _detect_external_target_change: the new coordinator and the returned    *)
(* flag.                                                                   *)
(***************************************************************************)
\* variant: no cooldown is observed
NoCooldown(s, t) == FALSE

InCooldown(s, t) ==
    /\ s.last_compensation_time # NoTime
    /\ t - s.last_compensation_time < external_change_cooldown

Bootstrap(s) ==
    IF Abs(s.desired_temp - s.tado_target) > BootstrapThreshold
      THEN [s EXCEPT !.desired_temp = Round1(10 * (s.tado_target - s.offset))]
      ELSE s

\* variant: the offset is not backed out of the reported target
DetectExternalTargetChangeKeepingOffset(s, t) ==
    IF InCooldown(s, t)
      THEN [st |-> s, change |-> FALSE]
    ELSE IF s.last_sent_compensated_target = None
      THEN [st |-> Bootstrap(s), change |-> FALSE]
    ELSE IF Abs(s.tado_target - s.last_sent_compensated_target) > ExternalChangeThreshold
      THEN [st |-> [s EXCEPT !.desired_temp = s.tado_target,
                             !.last_sent_compensated_target = None],
            change |-> TRUE]
    ELSE [st |-> s, change |-> FALSE]

DetectExternalTargetChange(s, t) ==
    IF InCooldown(s, t)
      THEN [st |-> s, change |-> FALSE]
    ELSE IF s.last_sent_compensated_target = None
      THEN [st |-> Bootstrap(s), change |-> FALSE]
    ELSE IF Abs(s.tado_target - s.last_sent_compensated_target) > ExternalChangeThreshold
      THEN [st |-> [s EXCEPT !.desired_temp = Round1(10 * (s.tado_target - s.offset)),
                             !.last_sent_compensated_target = None],
            change |-> TRUE]
    ELSE [st |-> s, change |-> FALSE]

(***************************************************************************)
(* _calculate_instant_heating_rate.  The result names the new coordinator, *)
(* the returned rate (None when the sample is rejected or out of range)    *)
(* and whether a save of the history was scheduled.                        *)
(***************************************************************************)
\* temp_diff < 0.1 in the arithmetic of the code: the readings are binary
\* floating-point numbers, and the difference of two readings one tenth
\* apart is computed a little below or a little above 0.1.  For readings
\* with one decimal in [16.0, 32.0) it is below when the lower reading ends
\* in .1, .3, .6 or .8 (19.2 - 19.1 = 0.0999999999999978...); differences
\* of no tenth or of two tenths and more compare as the decimals do.
RiseBelowMinimum(current_external_temp, heating_start_temp) ==
    \/ current_external_temp - heating_start_temp < MinLearnRise
    \/ /\ current_external_temp - heating_start_temp = MinLearnRise
       /\ heating_start_temp \in 160..319
       /\ heating_start_temp % 10 \in {1, 3, 6, 8}

InstantRate(temp_diff, seconds) == (temp_diff * 360000) \div seconds

\* variant: a full history drops the new sample
AppendBoundedKeepsOldest(history, rate) ==
    LET h == Append(history, rate)
    IN  IF Len(h) > MAX_HEATING_CYCLES THEN SubSeq(h, 1, MAX_HEATING_CYCLES) ELSE h

AppendBounded(history, rate) ==
    LET h == Append(history, rate)
    IN  IF Len(h) > MAX_HEATING_CYCLES THEN Tail(h) ELSE h

Mean(history) == Sum(history) \div Len(history)

CalculateInstantHeatingRate(s, t, current_external_temp) ==
    IF s.heating_start_time = NoTime \/ s.heating_start_temp = None
      THEN [st |-> s, rate |-> None, saved |-> FALSE]
    ELSE LET seconds == t - s.heating_start_time
             temp_diff == current_external_temp - s.heating_start_temp
         IN  IF seconds < MinLearnSeconds
                   \/ RiseBelowMinimum(current_external_temp, s.heating_start_temp)
               THEN [st |-> s, rate |-> None, saved |-> FALSE]
             ELSE LET instant_rate == InstantRate(temp_diff, seconds)
                      h == AppendBounded(s.heating_history, instant_rate)
                      s2 == [s EXCEPT !.heating_history = h,
                                      !.heating_rate = Mean(h),
                                      !.stored = h]
                  IN  [st |-> s2,
                       rate |-> IF MIN_HEATING_RATE <= instant_rate
                                   /\ instant_rate <= MAX_HEATING_RATE
                                  THEN instant_rate ELSE None,
                       saved |-> TRUE]

(***************************************************************************)
(* The live-learning block of _async_update_data.                          *)
(***************************************************************************)
Smoothed(heating_rate, instant_rate, learning_buffer) ==
    (heating_rate * (100 - learning_buffer) + instant_rate * learning_buffer + 50) \div 100

\* variant: every cycle of a heating phase takes its own external
\* temperature as the start temperature
LiveLearningMovesStart(s, cf, t) ==
    IF s.hvac_action = "heating"
      THEN [st |-> [s EXCEPT !.heating_start_time = IF @ = NoTime THEN t ELSE @,
                             !.heating_start_temp = s.external_temp],
            saved |-> FALSE]
      ELSE [st |-> [s EXCEPT !.heating_start_time = NoTime,
                             !.heating_start_temp = None],
            saved |-> FALSE]

LiveLearning(s, cf, t) ==
    IF s.hvac_action = "heating"
      THEN IF s.heating_start_time = NoTime
             THEN [st |-> [s EXCEPT !.heating_start_time = t,
                                    !.heating_start_temp = s.external_temp],
                   saved |-> FALSE]
             ELSE LET r == CalculateInstantHeatingRate(s, t, s.external_temp)
                  IN  IF r.rate # None
                        THEN [st |-> [r.st EXCEPT !.heating_rate =
                                         Smoothed(r.st.heating_rate, r.rate, cf.learning_buffer)],
                              saved |-> r.saved]
                        ELSE [st |-> r.st, saved |-> r.saved]
      ELSE [st |-> [s EXCEPT !.heating_start_time = NoTime,
                             !.heating_start_temp = None],
            saved |-> FALSE]

(***************************************************************************)
(* _update_temp_history.  The history is read only by                      *)
(* _detect_temperature_drop, which runs only when temperature-drop         *)
(* detection is configured; without it the list is not kept in the model.  *)
(***************************************************************************)
\* variant: a sample exactly as old as the window is kept
UpdateTempHistoryKeepsCutoff(s, cf, t, current_temp) ==
    IF ~cf.enable_temp_drop_detection THEN s
    ELSE LET h == Append(s.temp_history, << t, current_temp >>)
             cutoff_time == t - TEMP_DROP_WINDOW_MINUTES * 60
         IN  [s EXCEPT !.temp_history = SelectSeq(h, LAMBDA e : e[1] >= cutoff_time)]

UpdateTempHistory(s, cf, t, current_temp) ==
    IF ~cf.enable_temp_drop_detection THEN s
    ELSE LET h == Append(s.temp_history, << t, current_temp >>)
             cutoff_time == t - TEMP_DROP_WINDOW_MINUTES * 60
         IN  [s EXCEPT !.temp_history = SelectSeq(h, LAMBDA e : e[1] > cutoff_time)]

(***************************************************************************)
(* _detect_temperature_drop and _check_window_open.  sensor_on tells       *)
(* whether some configured window sensor has state "on".                   *)
(***************************************************************************)
DetectTemperatureDrop(s, cf) ==
    /\ Len(s.temp_history) >= 2
    /\ s.hvac_action = "heating"
    /\ LET temp_drop == s.temp_history[1][2] - s.external_temp
       IN  /\ temp_drop > cf.temp_drop_threshold
           /\ temp_drop > TEMP_DROP_RATE_THRESHOLD * TEMP_DROP_WINDOW_MINUTES

CheckWindowOpen(s, cf, sensor_on) ==
    \/ cf.enable_window_detection /\ sensor_on
    \/ cf.enable_temp_drop_detection /\ DetectTemperatureDrop(s, cf)

(***************************************************************************)
(* _calculate_preheat_minutes                                              *)
(***************************************************************************)
CalculatePreheatMinutes(s, cf) ==
    IF s.desired_temp <= s.external_temp THEN 0
    ELSE IF s.heating_rate <= 0 THEN 45
    ELSE LET temp_rise_needed == s.desired_temp - s.external_temp
             buffered == (temp_rise_needed * (100 + cf.learning_buffer)) \div s.heating_rate
         IN  Max(cf.min_preheat_minutes, Min(cf.max_preheat_minutes, buffered))

(***************************************************************************)
(* _async_update_data.  inp is what the state machine of the host reports  *)
(* in this cycle: the states of the two temperature sensors and of the     *)
(* thermostat, the thermostat's temperature and hvac_action attributes,    *)
(* whether a window sensor is on, and whether the service call raises.     *)
(* The result names the new coordinator, how the cycle ended ("skipped"    *)
(* for an early return of the unchanged data), the flag                    *)
(* returned by the detection and the outcome of the decision engine        *)
(* ("none" when it was not invoked) with the coordinator it was invoked on.*)
(***************************************************************************)
IsNumber(x) == x # EntityMissing /\ x # Unavailable /\ x # NonNumeric

\* the plausibility filter
\* variant: only the internal sensor is screened
ImplausibleInternalOnly(inp) == inp.tado < PlausibleMin
Implausible(inp) == inp.tado < PlausibleMin \/ inp.external < PlausibleMin

NoEngine(s) == [st |-> s, outcome |-> "none", cmd |-> None]

UpdateData(s, cf, t, inp) ==
    IF inp.external = EntityMissing \/ inp.tado = EntityMissing \/ inp.climate = "missing"
      THEN [st |-> s, result |-> "skipped", change |-> FALSE, eng |-> NoEngine(s), pre |-> s, saved |-> FALSE]
    ELSE IF inp.external = Unavailable \/ inp.tado = Unavailable \/ inp.climate = "unavailable"
      THEN [st |-> s, result |-> "skipped", change |-> FALSE, eng |-> NoEngine(s), pre |-> s, saved |-> FALSE]
    ELSE IF inp.external = NonNumeric \/ inp.tado = NonNumeric
      THEN [st |-> s, result |-> "skipped", change |-> FALSE, eng |-> NoEngine(s), pre |-> s, saved |-> FALSE]
    ELSE IF Implausible(inp)
      THEN [st |-> s, result |-> "skipped", change |-> FALSE, eng |-> NoEngine(s), pre |-> s, saved |-> FALSE]
    ELSE LET s1 == [s EXCEPT !.external_temp = inp.external, !.tado_temp = inp.tado]
         IN  IF inp.target = NonNumeric
               THEN [st |-> s1, result |-> "UpdateFailed", change |-> FALSE,
                     eng |-> NoEngine(s1), pre |-> s1, saved |-> FALSE]
             ELSE LET s2 == [s1 EXCEPT !.tado_target = inp.target,
                                       !.hvac_mode = IF inp.climate = "off" THEN "off" ELSE "heat",
                                       !.hvac_action = inp.hvac_action]
                      learn == LiveLearning(s2, cf, t)
                      s3 == [learn.st EXCEPT !.offset = inp.external - inp.tado]
                      det == DetectExternalTargetChange(s3, t)
                      s4 == UpdateTempHistory(det.st, cf, t, inp.external)
                      s5 == [s4 EXCEPT !.window_open = CheckWindowOpen(s4, cf, inp.window)]
                      s6 == IF cf.enable_preheat
                              THEN [s5 EXCEPT !.preheat_minutes = CalculatePreheatMinutes(s5, cf)]
                              ELSE s5
                      eng == IF det.change
                               THEN Compensation(s6, cf, FALSE, t, inp.raises)
                               ELSE NoEngine(s6)
                  IN  [st |-> eng.st, result |-> "ok", change |-> det.change,
                       eng |-> eng, pre |-> s6, saved |-> learn.saved]

(***************************************************************************)
(* History records.  call describes the invocation of the decision engine  *)
(* made by the last step: whether forced, how it ended, the setpoint it    *)
(* handed to the service call, whether it returned the coordinator as it   *)
(* found it, and whether the invocation before it was a non-forced one     *)
(* that issued a command with no change of the readings, the desired       *)
(* temperature or the reported thermostat target since.  cycle tells       *)
(* whether the last step was an update cycle that ran to its end, and      *)
(* whether the detection returned True in it.                              *)
(***************************************************************************)
NoCall ==
    [valid |-> FALSE, force |-> FALSE, outcome |-> "none",
     cmd |-> None, same |-> TRUE, repeats |-> FALSE]

NoPrev == [valid |-> FALSE, rel |-> << >>]

NoCycle == [valid |-> FALSE, change |-> FALSE]

NoNote == [op |-> "none"]

Attempted(outcome) == outcome \in {"sent", "failed"}

\* the readings, the desired temperature and the reported thermostat target
Relevant(s) == << s.external_temp, s.tado_temp, s.desired_temp, s.tado_target >>

PrevKept(s) == IF prev.valid /\ prev.rel = Relevant(s) THEN prev ELSE NoPrev

\* the history of a step that invoked the decision engine on coordinator pre
Invoked(force, pre, eng) ==
    /\ call' = [valid |-> TRUE, force |-> force,
                outcome |-> eng.outcome, cmd |-> eng.cmd, same |-> (eng.st = pre),
                repeats |-> PrevKept(pre).valid]
    /\ prev' = IF ~force /\ Attempted(eng.outcome)
                 THEN [valid |-> TRUE, rel |-> Relevant(eng.st)]
                 ELSE NoPrev
    /\ lastDispatch' = IF eng.outcome = "sent" THEN now ELSE lastDispatch

\* the history of a step that did not invoke it and left the coordinator as s
NotInvoked(s) ==
    /\ call' = NoCall
    /\ prev' = PrevKept(s)
    /\ UNCHANGED lastDispatch

(***************************************************************************)
(* Inputs.                                                                 *)
(***************************************************************************)
ExternalStates == {192}
TadoStates == {180, 190}
ManualTargets == {180, 222}
UserTemperatures == {245}
TickSeconds == {450}
Tolerances == {2}

\* The temperature attribute of the thermostat: what it reported in the last
\* cycle, the setpoint of the last command (the service call is made with
\* blocking=False, the thermostat takes it up some time later), or a setpoint
\* somebody chose at the thermostat.
ReportedTargets ==
    {st.tado_target} \cup ManualTargets
      \cup (IF lastDispatch # NoTime THEN {st.compensated_target} ELSE {})

ValidInputs ==
    [external : ExternalStates, tado : TadoStates, climate : {"heat"},
     target : ReportedTargets, hvac_action : {"idle"}, window : BOOLEAN, raises : BOOLEAN]

InvalidInputs ==
    LET ok == [external |-> 192, tado |-> 190, climate |-> "heat", target |-> st.tado_target,
               hvac_action |-> "idle", window |-> FALSE, raises |-> FALSE]
    IN  { [ok EXCEPT !.external = EntityMissing], [ok EXCEPT !.climate = "unavailable"],
          [ok EXCEPT !.tado = NonNumeric], [ok EXCEPT !.external = 30],
          [ok EXCEPT !.target = NonNumeric] }

Configurations ==
    [tolerance : Tolerances, backoff_minutes : {15},
     enable_window_detection : {TRUE}, enable_temp_drop_detection : {FALSE},
     temp_drop_threshold : {10}, enable_preheat : {FALSE}, learning_buffer : {10},
     min_preheat_minutes : {15}, max_preheat_minutes : {120}]

(***************************************************************************)
(* The state after async_setup_entry has built the coordinator.            *)
(***************************************************************************)
Init ==
    /\ st = InitialState(<< >>)
    /\ suspended = << >>
    /\ conf \in Configurations
    /\ now = 0
    /\ call = NoCall
    /\ prev = NoPrev
    /\ cycle = NoCycle
    /\ lastDispatch = NoTime
    /\ switches = 0
    /\ note = NoNote

(***************************************************************************)
(* One update cycle: the periodic refresh of the DataUpdateCoordinator or  *)
(* the refresh requested by async_request_refresh at the end of a handler. *)
(* Whether the service call raises is read only where the call is made: an *)
(* input with raises set describes a step whose call was made and raised.  *)
(***************************************************************************)
Update(inp) ==
    LET r == UpdateData(st, conf, now, inp)
    IN  /\ inp.raises => r.eng.outcome = "failed"
        /\ st' = r.st
        /\ cycle' = IF r.result = "ok" THEN [valid |-> TRUE, change |-> r.change] ELSE NoCycle
        /\ IF r.eng.outcome # "none"
             THEN Invoked(FALSE, r.pre, r.eng)
             ELSE NotInvoked(r.st)
        /\ UNCHANGED << conf, suspended, now, switches >>

UpdateCycle ==
    /\ \E inp \in ValidInputs \cup InvalidInputs : Update(inp)
    /\ note' = NoNote

(***************************************************************************)
(* TadoLocalOffsetClimate.async_set_temperature ->                         *)
(* async_set_desired_temperature                                           *)
(***************************************************************************)
SetDesiredTemperature(s, temperature) ==
    [s EXCEPT !.desired_temp = Max(MIN_TEMP, Min(MAX_TEMP, temperature))]

SetTemperature(temperature, raises) ==
    LET pre == SetDesiredTemperature(st, temperature)
        eng == Compensation(pre, conf, TRUE, now, raises)
    IN  /\ raises => eng.outcome = "failed"
        /\ st' = eng.st
        /\ Invoked(TRUE, pre, eng)
        /\ cycle' = NoCycle
        /\ UNCHANGED << conf, suspended, now, switches >>

UserSetsTemperature ==
    /\ \E temperature \in UserTemperatures, raises \in BOOLEAN :
           SetTemperature(temperature, raises)
    /\ note' = NoNote

(***************************************************************************)
(* handle_force_compensation -> async_force_compensation                   *)
(***************************************************************************)
\* variant: the engine is called without force
ForceCompensationNotForced(raises) ==
    /\ IF st.window_open /\ ~st.window_override
         THEN /\ ~raises
              /\ st' = st
              /\ NotInvoked(st)
         ELSE LET eng == Compensation(st, conf, FALSE, now, raises)
              IN  /\ raises => eng.outcome = "failed"
                  /\ st' = eng.st
                  /\ Invoked(TRUE, st, eng)
    /\ cycle' = NoCycle
    /\ UNCHANGED << conf, suspended, now, switches >>

ForceCompensation(raises) ==
    /\ IF st.window_open /\ ~st.window_override
         THEN /\ ~raises
              /\ st' = st
              /\ NotInvoked(st)
         ELSE LET eng == Compensation(st, conf, TRUE, now, raises)
              IN  /\ raises => eng.outcome = "failed"
                  /\ st' = eng.st
                  /\ Invoked(TRUE, st, eng)
    /\ cycle' = NoCycle
    /\ UNCHANGED << conf, suspended, now, switches >>

ForceCompensationService ==
    /\ \E raises \in BOOLEAN : ForceCompensation(raises)
    /\ note' = NoNote

(***************************************************************************)
(* handle_reset_learning -> async_reset_learning                           *)
(***************************************************************************)
\* variant: the start of the heating phase under way is kept
AsyncResetLearningKeepsStart(s) ==
    [s EXCEPT !.heating_history = << >>,
              !.heating_rate = DEFAULT_HEATING_RATE]

AsyncResetLearning(s) ==
    [s EXCEPT !.heating_history = << >>,
              !.heating_rate = DEFAULT_HEATING_RATE,
              !.heating_start_time = NoTime,
              !.heating_start_temp = None]

ResetLearning ==
    /\ st' = AsyncResetLearning(st)
    /\ NotInvoked(st)
    /\ cycle' = NoCycle
    /\ note' = NoNote
    /\ UNCHANGED << conf, suspended, now, switches >>

(***************************************************************************)
(* set_compensation_enabled, set_battery_saver, set_window_override        *)
(***************************************************************************)
SetCompensationEnabled ==
    \E enabled \in BOOLEAN :
        /\ enabled # st.compensation_enabled
        /\ switches < MaxSwitches
        /\ switches' = switches + 1
        /\ st' = [st EXCEPT !.compensation_enabled = enabled]
        /\ NotInvoked(st)
        /\ cycle' = NoCycle
        /\ note' = NoNote
        /\ UNCHANGED << conf, suspended, now >>

SetBatterySaver ==
    \E enabled \in BOOLEAN :
        /\ enabled # st.battery_saver_enabled
        /\ switches < MaxSwitches
        /\ switches' = switches + 1
        /\ st' = [st EXCEPT !.battery_saver_enabled = enabled]
        /\ NotInvoked(st)
        /\ cycle' = NoCycle
        /\ note' = NoNote
        /\ UNCHANGED << conf, suspended, now >>

SetWindowOverride ==
    \E override \in BOOLEAN :
        /\ override # st.window_override
        /\ switches < MaxSwitches
        /\ switches' = switches + 1
        /\ st' = [st EXCEPT !.window_override = override]
        /\ NotInvoked(st)
        /\ cycle' = NoCycle
        /\ note' = NoNote
        /\ UNCHANGED << conf, suspended, now >>

(***************************************************************************)
(* Time passes.                                                            *)
(***************************************************************************)
Tick ==
    \E dt \in TickSeconds :
        /\ now + dt <= MaxMinutes * 60
        /\ now' = now + dt
        /\ NotInvoked(st)
        /\ cycle' = NoCycle
        /\ note' = NoNote
        /\ UNCHANGED << st, conf, suspended, switches >>

Next ==
    \/ UpdateCycle
    \/ UserSetsTemperature
    \/ ForceCompensationService
    \/ ResetLearning
    \/ SetCompensationEnabled
    \/ SetBatterySaver
    \/ SetWindowOverride
    \/ Tick

Spec == Init /\ [][Next]_vars

(***************************************************************************)
(* The reader.  A second specification looks at the update cycle alone,    *)
(* with every kind of input the three sources can give: a source absent    *)
(* from the state machine, unavailable or unknown, not a number, below     *)
(* 5.0, a thermostat that heats or idles, and a window sensor together     *)
(* with the time it has been on.  The code reads the state of the window   *)
(* sensor only; the configuration of the specification names a window-open *)
(* delay (WindowOpenDelay, seconds), which the code does not read.         *)
(***************************************************************************)
WindowOpenDelay == 30

ReaderValidInputs ==
    { v \in [external : ExternalStates, tado : TadoStates, climate : {"heat"},
             target : {st.tado_target} \cup ManualTargets,
             hvac_action : {"idle", "heating"}, window : BOOLEAN,
             window_for : {0, WindowOpenDelay}, raises : {FALSE}] :
        ~v.window => v.window_for = 0 }

ReaderInvalidInputs ==
    UNION { { [v EXCEPT !.external = EntityMissing], [v EXCEPT !.tado = EntityMissing],
              [v EXCEPT !.climate = "missing"],
              [v EXCEPT !.external = Unavailable], [v EXCEPT !.tado = Unavailable],
              [v EXCEPT !.climate = "unavailable"],
              [v EXCEPT !.external = 30], [v EXCEPT !.tado = 30],
              [v EXCEPT !.external = NonNumeric], [v EXCEPT !.tado = NonNumeric],
              [v EXCEPT !.target = NonNumeric] } :
            v \in { w \in ReaderValidInputs :
                      w.tado = 190 /\ w.target = st.tado_target /\ w.window_for = 0 } }

\* what the sources gave in a cycle
InputKind(inp) ==
    IF inp.external = EntityMissing \/ inp.tado = EntityMissing \/ inp.climate = "missing"
      THEN "absent"
    ELSE IF inp.external = Unavailable \/ inp.tado = Unavailable \/ inp.climate = "unavailable"
      THEN "unavailable"
    ELSE IF inp.external = NonNumeric \/ inp.tado = NonNumeric \/ inp.target = NonNumeric
      THEN "nonnumeric"
    ELSE IF inp.external < 50 \/ inp.tado < 50
      THEN "below5"
    ELSE "numeric"

ReadCycle ==
    \E inp \in ReaderValidInputs \cup ReaderInvalidInputs :
        /\ Update(inp)
        /\ note' = [op |-> "update", kind |-> InputKind(inp),
                    result |-> UpdateData(st, conf, now, inp).result,
                    window |-> inp.window, window_for |-> inp.window_for]

NextReader ==
    \/ ReadCycle
    \/ UserSetsTemperature
    \/ Tick

SpecReader == Init /\ [][NextReader]_vars

(***************************************************************************)
(* The requests.  A third specification follows the force_compensation     *)
(* service: the history notes each request together with the time of the   *)
(* last command before it.                                                 *)
(***************************************************************************)
ForceRequest ==
    /\ \E raises \in BOOLEAN : ForceCompensation(raises)
    /\ note' = [op |-> "force", last_compensation_time |-> st.last_compensation_time]

NextRequests ==
    \/ UpdateCycle
    \/ UserSetsTemperature
    \/ ForceRequest
    \/ SetCompensationEnabled
    \/ SetWindowOverride
    \/ Tick

SpecRequests == Init /\ [][NextRequests]_vars

(***************************************************************************)
(* The learner.  A fourth specification follows the heating-rate history   *)
(* over heating cycles long enough to give samples, resets, and restarts   *)
(* of the host: async_setup_entry builds a new coordinator and             *)
(* async_load_data reads the history from the Store.  The history notes,   *)
(* for each cycle, the history before it, whether a sample was appended    *)
(* (a save was scheduled) and the request it came after.                   *)
(***************************************************************************)
LearnExternalStates == {190, 194, 200}
LearnTickSeconds == 1200

LearnInputs ==
    [external : LearnExternalStates, tado : {190}, climate : {"heat"},
     target : {st.tado_target}, hvac_action : {"idle", "heating"},
     window : {FALSE}, raises : {FALSE}]

LearnCycle ==
    \E inp \in LearnInputs :
        /\ Update(inp)
        /\ note' = [op |-> "learn", before |-> st.heating_history,
                    saved |-> UpdateData(st, conf, now, inp).saved,
                    after |-> note.op]

Restart ==
    /\ st' = InitialState(st.stored)
    /\ call' = NoCall
    /\ prev' = NoPrev
    /\ cycle' = NoCycle
    /\ lastDispatch' = NoTime
    /\ note' = [op |-> "restart"]
    /\ UNCHANGED << conf, suspended, now, switches >>

\* the history keeps the note of the last request while time passes
LearnTick ==
    /\ now + LearnTickSeconds <= MaxLearnTicks * LearnTickSeconds
    /\ now' = now + LearnTickSeconds
    /\ NotInvoked(st)
    /\ cycle' = NoCycle
    /\ UNCHANGED << st, conf, suspended, switches, note >>

LearnReset ==
    /\ st' = AsyncResetLearning(st)
    /\ NotInvoked(st)
    /\ cycle' = NoCycle
    /\ note' = [op |-> "reset"]
    /\ UNCHANGED << conf, suspended, now, switches >>

NextLearn ==
    \/ LearnCycle
    \/ LearnReset
    \/ Restart
    \/ LearnTick

SpecLearn == Init /\ [][NextLearn]_vars

(***************************************************************************)
(* handle_set_preheat.  Time is counted in seconds from a local midnight;  *)
(* target_time is a time of day in seconds and target_temperature the      *)
(* requested temperature.  _calculate_preheat_minutes compares             *)
(* desired_temp with external_temp first: before the first snapshot the    *)
(* comparison with None raises and the handler ends there.                 *)
(***************************************************************************)
Day == 86400

\* variant: the target time is taken on the current day
NextOccurrenceToday(t, target_time) == (t \div Day) * Day + target_time

NextOccurrence(t, target_time) ==
    LET target_datetime == (t \div Day) * Day + target_time
    IN  IF target_datetime <= t THEN target_datetime + Day ELSE target_datetime

SetPreheat(target_time, target_temperature, raises) ==
    IF st.external_temp = None
      THEN /\ ~raises
           /\ st' = st
           /\ NotInvoked(st)
      ELSE LET target_datetime == NextOccurrence(now, target_time)
               preheat_minutes == CalculatePreheatMinutes(st, conf)
               preheat_start == target_datetime - preheat_minutes * 60
               s1 == [st EXCEPT !.next_preheat_start = preheat_start,
                                !.next_preheat_temp = target_temperature]
           IN  IF preheat_minutes * 60 >= target_datetime - now
                 THEN LET pre == SetDesiredTemperature(
                                     [s1 EXCEPT !.next_preheat_start = NoTime],
                                     target_temperature)
                          eng == Compensation(pre, conf, TRUE, now, raises)
                      IN  /\ raises => eng.outcome = "failed"
                          /\ st' = eng.st
                          /\ Invoked(TRUE, pre, eng)
                 ELSE /\ ~raises
                      /\ st' = s1
                      /\ NotInvoked(s1)

(***************************************************************************)
(* The pre-heat scheduler.  A fifth specification follows set_preheat      *)
(* requests made in rooms that have readings, a desired temperature set by *)
(* the user and a heating rate learned in a heating phase.  The history    *)
(* notes each request: its arguments, the resolved target time, the value  *)
(* of the handler's preheat_minutes and the readings it was computed from. *)
(***************************************************************************)
PreheatExternalStates == {180, 190}
PreheatUserTemperatures == {210}
PreheatTickSeconds == 1800
TargetTimes == {900, 5580, 7200}
TargetTemperatures == {180, 210}

PreheatInputs ==
    [external : PreheatExternalStates, tado : {190}, climate : {"heat"},
     target : {st.tado_target}, hvac_action : {"idle", "heating"},
     window : {FALSE}, raises : {FALSE}]

PreheatCycle ==
    /\ \E inp \in PreheatInputs : Update(inp)
    /\ note' = NoNote

PreheatUserSets ==
    /\ \E temperature \in PreheatUserTemperatures : SetTemperature(temperature, FALSE)
    /\ note' = NoNote

SetPreheatRequest ==
    \E target_time \in TargetTimes, target_temperature \in TargetTemperatures,
       raises \in BOOLEAN :
        /\ SetPreheat(target_time, target_temperature, raises)
        /\ cycle' = NoCycle
        /\ note' = [op |-> "preheat", raised |-> (st.external_temp = None),
                    target_time |-> target_time,
                    target_temperature |-> target_temperature,
                    target_datetime |-> NextOccurrence(now, target_time),
                    preheat_minutes |-> IF st.external_temp = None THEN None
                                        ELSE CalculatePreheatMinutes(st, conf),
                    external |-> st.external_temp,
                    desired |-> st.desired_temp,
                    heating_rate |-> st.heating_rate]
        /\ UNCHANGED << conf, suspended, now, switches >>

PreheatTick ==
    /\ now + PreheatTickSeconds <= MaxPreheatTicks * PreheatTickSeconds
    /\ now' = now + PreheatTickSeconds
    /\ NotInvoked(st)
    /\ cycle' = NoCycle
    /\ note' = NoNote
    /\ UNCHANGED << st, conf, suspended, switches >>

NextPreheat ==
    \/ PreheatCycle
    \/ PreheatUserSets
    \/ SetPreheatRequest
    \/ PreheatTick

SpecPreheat == Init /\ [][NextPreheat]_vars

(***************************************************************************)
(* The rooms.  async_setup_entry puts one coordinator per config entry     *)
(* into hass.data[DOMAIN]; handle_force_compensation and                   *)
(* handle_reset_learning walk through that dict in insertion order and do  *)
(* not read call.data.  In this specification st holds one coordinator per *)
(* room; the history notes each request: the room named by its entity_id,  *)
(* the coordinators before it, the rooms a command was issued for and the  *)
(* room in which an exception ended the handler ("none" when it ran to its *)
(* end).                                                                   *)
(***************************************************************************)
RoomOrder == << "living", "bedroom" >>
Rooms == {"living", "bedroom"}

RoomInputs(s) ==
    [external : ExternalStates, tado : {180}, climate : {"heat"},
     target : {s.tado_target}, hvac_action : {"idle", "heating"},
     window : BOOLEAN, raises : {FALSE}]

InitRooms ==
    /\ st = [r \in Rooms |-> InitialState(<< >>)]
    /\ suspended = << >>
    /\ conf \in Configurations
    /\ now = 0
    /\ call = NoCall
    /\ prev = NoPrev
    /\ cycle = NoCycle
    /\ lastDispatch = NoTime
    /\ switches = 0
    /\ note = NoNote

RoomCycle ==
    /\ \E r \in Rooms : \E inp \in RoomInputs(st[r]) :
           st' = [st EXCEPT ![r] = UpdateData(st[r], conf, now, inp).st]
    /\ note' = NoNote
    /\ UNCHANGED << conf, suspended, now, call, prev, cycle, lastDispatch, switches >>

\* async_force_compensation of one coordinator: the new coordinator, how the
\* engine ended, and whether an exception left the method
ForceRoom(s, t) ==
    IF s.window_open /\ ~s.window_override
      THEN [st |-> s, outcome |-> "none", raised |-> FALSE]
      ELSE LET eng == Compensation(s, conf, TRUE, t, FALSE)
           IN  [st |-> eng.st, outcome |-> eng.outcome,
                raised |-> (eng.outcome = "TypeError")]

\* the loop of handle_force_compensation from the i-th coordinator on
RECURSIVE ForceEach(_, _, _, _)
ForceEach(s, t, i, sent) ==
    IF i > Len(RoomOrder)
      THEN [st |-> s, sent |-> sent, failed |-> "none"]
      ELSE LET r == RoomOrder[i]
               res == ForceRoom(s[r], t)
           IN  IF res.raised
                 THEN [st |-> s, sent |-> sent, failed |-> r]
                 ELSE ForceEach([s EXCEPT ![r] = res.st], t, i + 1,
                                IF Attempted(res.outcome) THEN sent \cup {r} ELSE sent)

HandleForceCompensation ==
    \E entity_id \in Rooms :
        LET res == ForceEach(st, now, 1, {})
        IN  /\ st' = res.st
            /\ note' = [op |-> "force", entity_id |-> entity_id, before |-> st,
                        sent |-> res.sent, failed |-> res.failed]
            /\ UNCHANGED << conf, suspended, now, call, prev, cycle, lastDispatch, switches >>

HandleResetLearning ==
    \E entity_id \in Rooms :
        /\ st' = [r \in Rooms |-> AsyncResetLearning(st[r])]
        /\ note' = [op |-> "reset", entity_id |-> entity_id, before |-> st,
                    sent |-> {}, failed |-> "none"]
        /\ UNCHANGED << conf, suspended, now, call, prev, cycle, lastDispatch, switches >>

RoomsTick ==
    \E dt \in TickSeconds :
        /\ now + dt <= MaxMinutes * 60
        /\ now' = now + dt
        /\ note' = NoNote
        /\ UNCHANGED << st, conf, suspended, call, prev, cycle, lastDispatch, switches >>

NextRooms ==
    \/ RoomCycle
    \/ HandleForceCompensation
    \/ HandleResetLearning
    \/ RoomsTick

SpecRooms == InitRooms /\ [][NextRooms]_vars

(***************************************************************************)
(* The reconciler.  A specification with time in steps of 30 seconds, to   *)
(* follow _detect_external_target_change around the cooldown of 90 seconds *)
(* and over the cycles in which no command has been recorded.  The history *)
(* notes, for the last update cycle, whether the bootstrap branch changed  *)
(* desired_temp in it and in how many cycles it has done so (counted up to *)
(* 2).  The branch is the only writer of desired_temp in a cycle that      *)
(* starts outside the cooldown with no last_sent_compensated_target.       *)
(***************************************************************************)
ReconcileTickSeconds == 30

ReconcileInputs ==
    [external : ExternalStates, tado : TadoStates, climate : {"heat"},
     target : ReportedTargets, hvac_action : {"idle"}, window : {FALSE},
     raises : BOOLEAN]

Bootstraps == IF note.op = "reconcile" THEN note.bootstraps ELSE 0

ReconcileCycle ==
    \E inp \in ReconcileInputs :
        LET r == UpdateData(st, conf, now, inp)
            bootstrapped == /\ r.result = "ok"
                            /\ ~InCooldown(st, now)
                            /\ st.last_sent_compensated_target = None
                            /\ r.st.desired_temp # st.desired_temp
        IN  /\ Update(inp)
            /\ note' = [op |-> "reconcile", bootstrapped |-> bootstrapped,
                        bootstraps |-> IF bootstrapped
                                         THEN Min(2, Bootstraps + 1)
                                         ELSE Bootstraps]

ReconcileUserSets ==
    /\ \E temperature \in UserTemperatures, raises \in BOOLEAN :
           SetTemperature(temperature, raises)
    /\ UNCHANGED note

ReconcileTick ==
    /\ now + ReconcileTickSeconds <= MaxReconcileTicks * ReconcileTickSeconds
    /\ now' = now + ReconcileTickSeconds
    /\ NotInvoked(st)
    /\ cycle' = NoCycle
    /\ UNCHANGED << st, conf, suspended, switches, note >>

NextReconcile ==
    \/ ReconcileCycle
    \/ ReconcileUserSets
    \/ ReconcileTick

SpecReconcile == Init /\ [][NextReconcile]_vars

(***************************************************************************)
(* The echo.  A specification in which the setpoint of the thermostat      *)
(* changes only through the set_temperature commands of the engine: the    *)
(* thermostat takes each command it was sent in turn, after any delay, and *)
(* an update cycle reads the setpoint it has at that moment.  Time goes in *)
(* steps of 30 seconds past the cooldown of 90 seconds.  The history notes *)
(* the setpoint of the thermostat, the commands it has not yet taken, and  *)
(* whether a command has been sent.                                        *)
(***************************************************************************)
EchoTickSeconds == 30
InitialSetpoint == 180

Thermostat ==
    IF note.op = "echo" THEN note
    ELSE [op |-> "echo", target |-> InitialSetpoint, pending |-> << >>,
          commanded |-> FALSE]

\* the thermostat after the step: a command sent in it is on its way
Commanded ==
    /\ call'.valid /\ call'.outcome = "sent"
          => Len(Thermostat.pending) < MaxInFlight
    /\ note' = IF call'.valid /\ call'.outcome = "sent"
                 THEN [Thermostat EXCEPT !.pending = Append(@, call'.cmd),
                                         !.commanded = TRUE]
                 ELSE Thermostat

EchoInputs ==
    [external : ExternalStates, tado : TadoStates, climate : {"heat"},
     target : {Thermostat.target}, hvac_action : {"idle"}, window : {FALSE},
     raises : {FALSE}]

EchoCycle ==
    /\ \E inp \in EchoInputs : Update(inp)
    /\ Commanded

EchoUserSets ==
    /\ \E temperature \in UserTemperatures \cup {200}, raises \in BOOLEAN :
           SetTemperature(temperature, raises)
    /\ Commanded

ThermostatTakesCommand ==
    /\ Thermostat.pending # << >>
    /\ note' = [Thermostat EXCEPT !.target = Head(Thermostat.pending),
                                  !.pending = Tail(Thermostat.pending)]
    /\ NotInvoked(st)
    /\ cycle' = NoCycle
    /\ UNCHANGED << st, conf, suspended, now, switches >>

EchoTick ==
    /\ now + EchoTickSeconds <= MaxEchoTicks * EchoTickSeconds
    /\ now' = now + EchoTickSeconds
    /\ NotInvoked(st)
    /\ cycle' = NoCycle
    /\ UNCHANGED << st, conf, suspended, switches, note >>

NextEcho ==
    \/ EchoCycle
    \/ EchoUserSets
    \/ ThermostatTakesCommand
    \/ EchoTick

SpecEcho == Init /\ [][NextEcho]_vars

(***************************************************************************)
(* The range.  A specification in which the thermostat reports setpoints   *)
(* at the two ends of its range (5.0 and 25.0), the internal sensor reads  *)
(* below or above the external one, and the user asks for temperatures in  *)
(* and outside [MIN_TEMP, MAX_TEMP]; time goes in steps of the cooldown.    *)
(***************************************************************************)
RangeTadoStates == {180, 204}
RangeTargets == {SetpointMin, SetpointMax}
RangeUserTemperatures == {30, 200, 270}
RangeTickSeconds == 90

RangeInputs ==
    [external : ExternalStates, tado : RangeTadoStates, climate : {"heat"},
     target : {st.tado_target} \cup RangeTargets, hvac_action : {"idle"},
     window : {FALSE}, raises : {FALSE}]

RangeCycle ==
    /\ \E inp \in RangeInputs : Update(inp)
    /\ note' = [op |-> "cycle"]

RangeUserSets ==
    /\ \E temperature \in RangeUserTemperatures, raises \in BOOLEAN :
           SetTemperature(temperature, raises)
    /\ note' = [op |-> "user"]

RangeTick ==
    /\ now + RangeTickSeconds <= MaxRangeTicks * RangeTickSeconds
    /\ now' = now + RangeTickSeconds
    /\ NotInvoked(st)
    /\ cycle' = NoCycle
    /\ UNCHANGED << st, conf, suspended, switches, note >>

NextRange ==
    \/ RangeCycle
    \/ RangeUserSets
    \/ RangeTick

SpecRange == Init /\ [][NextRange]_vars

(***************************************************************************)
(* The samples.  A specification with time in steps of half the minimum    *)
(* duration of a sample and external readings one tenth apart, to follow   *)
(* _calculate_instant_heating_rate at its two thresholds.  The input also  *)
(* tells how long ago a window sensor last changed to closed (NoTime:      *)
(* never); the specification names a lockout of 15 minutes after it        *)
(* (WindowCloseLockout, seconds), the code does not read the time of the   *)
(* change.  The history notes, for each cycle, the learner's fields before *)
(* it, whether a save was scheduled and the time since the window closed.  *)
(***************************************************************************)
WindowCloseLockout == 900
SampleExternalStates == {190, 191, 192}
SampleTickSeconds == 594

SampleInputs ==
    [external : SampleExternalStates, tado : {190}, climate : {"heat"},
     target : {st.tado_target}, hvac_action : {"idle", "heating"},
     window : {FALSE}, closed_for : {NoTime, 300}, raises : {FALSE}]

SampleCycle ==
    \E inp \in SampleInputs :
        /\ Update(inp)
        /\ note' = [op |-> "sample",
                    heating_history |-> st.heating_history,
                    heating_rate |-> st.heating_rate,
                    heating_start_time |-> st.heating_start_time,
                    heating_start_temp |-> st.heating_start_temp,
                    stored |-> st.stored,
                    saved |-> UpdateData(st, conf, now, inp).saved,
                    closed_for |-> inp.closed_for]

SampleTick ==
    /\ now + SampleTickSeconds <= MaxSampleTicks * SampleTickSeconds
    /\ now' = now + SampleTickSeconds
    /\ NotInvoked(st)
    /\ cycle' = NoCycle
    /\ note' = NoNote
    /\ UNCHANGED << st, suspended, conf, switches >>

NextSample ==
    \/ SampleCycle
    \/ SampleTick

SpecSample == Init /\ [][NextSample]_vars

(***************************************************************************)
(* The temperature drop.  A specification of rooms configured with         *)
(* temperature-drop detection, with external readings that fall and rise   *)
(* by 1.5 to 2.5 degrees and time in steps of half the drop window.  Two   *)
(* cycles never read the same utcnow(): a cycle runs when the rolling      *)
(* history has no sample of the current instant.  The history notes what   *)
(* the window sensor reported in the last cycle.                           *)
(***************************************************************************)
DropExternalStates == {175, 180, 185, 200}
DropTickSeconds == 450

DropConfigurations ==
    [tolerance : Tolerances, backoff_minutes : {15},
     enable_window_detection : {TRUE}, enable_temp_drop_detection : {TRUE},
     temp_drop_threshold : {10, 20}, enable_preheat : {FALSE}, learning_buffer : {10},
     min_preheat_minutes : {15}, max_preheat_minutes : {120}]

InitDrop ==
    /\ st = InitialState(<< >>)
    /\ suspended = << >>
    /\ conf \in DropConfigurations
    /\ now = 0
    /\ call = NoCall
    /\ prev = NoPrev
    /\ cycle = NoCycle
    /\ lastDispatch = NoTime
    /\ switches = 0
    /\ note = NoNote

DropInputs ==
    [external : DropExternalStates, tado : {190}, climate : {"heat"},
     target : {st.tado_target}, hvac_action : {"idle", "heating"},
     window : BOOLEAN, raises : {FALSE}]

DropCycle ==
    /\ IF st.temp_history = << >> THEN TRUE
       ELSE st.temp_history[Len(st.temp_history)][1] < now
    /\ \E inp \in DropInputs :
           /\ Update(inp)
           /\ note' = [op |-> "drop", window |-> inp.window]

DropTick ==
    /\ now + DropTickSeconds <= MaxDropTicks * DropTickSeconds
    /\ now' = now + DropTickSeconds
    /\ NotInvoked(st)
    /\ cycle' = NoCycle
    /\ UNCHANGED << st, suspended, conf, switches, note >>

NextDrop ==
    \/ DropCycle
    \/ DropTick

SpecDrop == InitDrop /\ [][NextDrop]_vars

(***************************************************************************)
(* The coroutines.  In the specifications above an operation runs from its *)
(* start to its end in one step.  The coordinator holds no lock, and the   *)
(* decision engine awaits hass.services.async_call between computing the   *)
(* setpoint and recording it: this specification takes that await as a     *)
(* point where the coroutine can be suspended and other coroutines of the  *)
(* event loop (the periodic update, a service handler, the climate entity) *)
(* can run.  suspended holds, for each engine invocation waiting there,    *)
(* the setpoint it handed over and the value of utcnow() it read when it   *)
(* started.  The history notes the setpoint of the last command handed to  *)
(* the service call.  The service call does not raise here.                *)
(***************************************************************************)
AsyncTickSeconds == 450

AsyncInputs ==
    [external : ExternalStates, tado : {180}, climate : {"heat"},
     target : {st.tado_target} \cup ManualTargets, hvac_action : {"idle"},
     window : {FALSE}, raises : {FALSE}]

\* an engine invocation on coordinator s reaches the service call or returns
EngineBegins(s, force) ==
    LET eng == Compensation(s, conf, force, now, FALSE)
    IN  /\ st' = s
        /\ IF eng.outcome = "sent"
             THEN /\ Len(suspended) < MaxSuspended
                  /\ suspended' = Append(suspended, [cmd |-> eng.cmd, t |-> now])
                  /\ note' = [op |-> "async", dispatched |-> eng.cmd]
             ELSE UNCHANGED << suspended, note >>
        /\ UNCHANGED << conf, now, call, prev, cycle, lastDispatch, switches >>

AsyncUpdateBegins ==
    \E inp \in AsyncInputs :
        LET r == UpdateData(st, conf, now, inp)
        IN  IF r.change
              THEN EngineBegins(r.pre, FALSE)
              ELSE /\ st' = r.st
                   /\ UNCHANGED << suspended, note, conf, now, call, prev, cycle,
                                   lastDispatch, switches >>

AsyncSetTemperatureBegins ==
    \E temperature \in UserTemperatures :
        EngineBegins(SetDesiredTemperature(st, temperature), TRUE)

AsyncForceBegins ==
    /\ ~(st.window_open /\ ~st.window_override)
    /\ EngineBegins(st, TRUE)

\* the service call returns to a waiting invocation, which records its
\* setpoint and the time it read at its start
EngineResumes ==
    \E i \in 1..Len(suspended) :
        /\ st' = Dispatched(st, suspended[i].t, suspended[i].cmd)
        /\ suspended' = SubSeq(suspended, 1, i - 1)
                           \o SubSeq(suspended, i + 1, Len(suspended))
        /\ UNCHANGED << conf, now, call, prev, cycle, lastDispatch, switches, note >>

AsyncTick ==
    /\ now + AsyncTickSeconds <= MaxAsyncTicks * AsyncTickSeconds
    /\ now' = now + AsyncTickSeconds
    /\ UNCHANGED << st, suspended, conf, call, prev, cycle, lastDispatch, switches, note >>

NextAsync ==
    \/ AsyncUpdateBegins
    \/ AsyncSetTemperatureBegins
    \/ AsyncForceBegins
    \/ EngineResumes
    \/ AsyncTick

SpecAsync == Init /\ [][NextAsync]_vars

TypeOK ==
    /\ now \in Nat
    /\ st.window_open \in BOOLEAN
    /\ call.valid \in BOOLEAN

(***************************************************************************)
(* Properties.                                                             *)
(***************************************************************************)

\* The multiple of 0.5 in [5.0, 25.0] that a raw target stands for: the
\* nearest multiple of 0.5, moved into the range.
IsSetpointFor(c, raw) ==
    /\ c % 5 = 0
    /\ 50 <= c /\ c <= 250
    /\ \/ 2 * Abs(c - raw) <= 5
       \/ raw > 250 /\ c = 250
       \/ raw < 50 /\ c = 50

ExpectedSetpoint(raw) == CHOOSE c \in 50..250 : IsSetpointFor(c, raw)

\* the raw target the engine is to start from
RawTarget(s) ==
    IF s.external_temp < s.desired_temp THEN s.desired_temp + s.offset ELSE s.desired_temp

\* the last step made a non-forced engine invocation that passed the
\* enabled, window and backoff checks
PassedGates ==
    /\ call.valid /\ ~call.force
    /\ call.outcome \in {"tolerance", "sent", "failed"}

\* C1: the setpoint handed to every set-temperature call is the raw target
\* (desired + offset when external < desired, else desired) rounded to the
\* nearest 0.5 and clamped to [5.0, 25.0]; compensated_target is always a
\* multiple of 0.5 inside [5.0, 25.0].
C1_SetpointRoundedAndClamped ==
    /\ st.compensated_target % 5 = 0
    /\ 50 <= st.compensated_target /\ st.compensated_target <= 250
    /\ (call.valid /\ Attempted(call.outcome)) => IsSetpointFor(call.cmd, RawTarget(st))
    /\ (call.valid /\ call.outcome = "sent") => st.compensated_target = call.cmd

C1_Witness ==
    /\ call.valid /\ call.outcome = "sent"
    /\ st.external_temp < st.desired_temp
    /\ (st.desired_temp + st.offset) % 5 # 0
    /\ st.desired_temp + st.offset > 250
    /\ call.cmd = 250

\* C2: a non-forced invocation that passes the enabled, window and backoff
\* checks with external_temp >= desired_temp always sends the rounded,
\* clamped desired temperature, whatever the tolerance.
C2_HardBrakeAlwaysSends ==
    (PassedGates /\ st.external_temp >= st.desired_temp)
        => /\ Attempted(call.outcome)
           /\ call.cmd = ExpectedSetpoint(st.desired_temp)

C4_DisabledOrWindowIsNoOp ==
    (call.valid /\ ~call.force)
        => /\ (~st.compensation_enabled \/ (st.window_open /\ ~st.window_override))
                => (call.outcome \in {"disabled", "window"} /\ call.same)
           /\ (st.window_open /\ st.window_override) => call.outcome # "window"

C4_Witness ==
    /\ call.valid /\ ~call.force
    /\ st.window_open /\ ~st.window_override
    /\ st.compensation_enabled
    /\ call.outcome = "window"

\* C5: with battery saver enabled, a non-forced invocation made less than
\* backoff_minutes after the last dispatched command (forced or not) issues
\* no command.
C5_Backoff ==
    [][ (/\ call'.valid /\ ~call'.force
         /\ st'.battery_saver_enabled
         /\ lastDispatch # NoTime
         /\ now - lastDispatch < conf.backoff_minutes * 60)
            => (~Attempted(call'.outcome) /\ call'.same) ]_vars

C5_Witness ==
    /\ call.valid /\ ~call.force
    /\ call.outcome = "backoff"
    /\ st.compensation_enabled /\ ~st.window_open
    /\ now - lastDispatch >= external_change_cooldown

\* C6: two non-forced invocations in a row, with no change of the readings,
\* of desired_temp or of the reported thermostat target between them, issue
\* at most one set-temperature command.
C6_Idempotent ==
    ~(call.valid /\ ~call.force /\ Attempted(call.outcome) /\ call.repeats)

\* the update cycle of the step began outside the cooldown
OutsideCooldown == lastDispatch = NoTime \/ now - lastDispatch >= external_change_cooldown

\* C7: in a successful update cycle outside the cooldown with
\* last_sent_compensated_target set, a reported target more than 0.4 away
\* from it makes desired_temp the reported target minus the offset, clears
\* last_sent_compensated_target and runs the decision engine in the same
\* cycle; a reported target within 0.4 is not detected and leaves
\* desired_temp as it is.
C7_ExternalChangeDetection ==
    [][ (/\ cycle'.valid
         /\ OutsideCooldown
         /\ st.last_sent_compensated_target # None)
            => IF Abs(st'.tado_target - st.last_sent_compensated_target) > 4
                 THEN /\ cycle'.change
                      /\ st'.desired_temp = st'.tado_target - st'.offset
                      /\ call'.valid /\ ~call'.force
                      /\ \/ st'.last_sent_compensated_target = None
                         \/ /\ call'.outcome = "sent"
                            /\ st'.last_sent_compensated_target = call'.cmd
                 ELSE /\ ~cycle'.change
                      /\ ~call'.valid
                      /\ st'.desired_temp = st.desired_temp
                      /\ st'.last_sent_compensated_target = st.last_sent_compensated_target ]_vars

C7_Witness ==
    /\ cycle.valid /\ cycle.change
    /\ call.valid /\ ~call.force
    /\ st.offset # 0
    /\ st.last_sent_compensated_target = None
    /\ st.desired_temp = st.tado_target - st.offset

\* C8: a successful update cycle that follows a successful update cycle,
\* with no user command between them, and finds the thermostat reporting the
\* same target as that cycle did leaves desired_temp as it is.
C8_NoSilentDrift ==
    [][ (/\ cycle.valid
         /\ cycle'.valid
         /\ st'.tado_target = st.tado_target)
            => st'.desired_temp = st.desired_temp ]_vars

\* C9: every successful update cycle in which compensation is enabled, the
\* window guard does not block, the backoff has elapsed and the computed
\* target is at least the tolerance away from the thermostat target issues
\* a set-temperature command.
C9_EngineRunsEveryCycle ==
    (/\ cycle.valid
     /\ st.compensation_enabled
     /\ ~(st.window_open /\ ~st.window_override)
     /\ ~(/\ st.battery_saver_enabled
          /\ lastDispatch # NoTime
          /\ now - lastDispatch < conf.backoff_minutes * 60)
     /\ Abs(ExpectedSetpoint(RawTarget(st)) - st.tado_target) >= conf.tolerance)
        => (call.valid /\ Attempted(call.outcome))

\* C10, as stated: last_sent_compensated_target, last_compensation_time and
\* compensated_target are written only in a step that dispatched a command
\* without the call raising.
C10_WrittenOnlyAfterDispatch ==
    [][ (\/ st'.last_compensation_time # st.last_compensation_time
         \/ st'.compensated_target # st.compensated_target
         \/ st'.last_sent_compensated_target # st.last_sent_compensated_target)
            => (call'.valid /\ call'.outcome = "sent") ]_vars

\* C10, amended: when the set-temperature call raises, the engine returns
\* normally and leaves the three fields as it found them; a value is
\* recorded in them only by a step that dispatched a command, and then it is
\* the setpoint and the time of that command; the one other write is the
\* clearing of last_sent_compensated_target by a detected external change,
\* which stays cleared when the call of that cycle raises.
C10_FailureLeavesState ==
    [][ /\ call'.outcome = "failed"
            => /\ call'.same
               /\ st'.last_compensation_time = st.last_compensation_time
               /\ st'.compensated_target = st.compensated_target
               /\ st'.last_sent_compensated_target
                     \in {st.last_sent_compensated_target, None}
        /\ (\/ st'.last_compensation_time # st.last_compensation_time
            \/ st'.compensated_target # st.compensated_target
            \/ /\ st'.last_sent_compensated_target # st.last_sent_compensated_target
               /\ st'.last_sent_compensated_target # None)
            => /\ call'.valid /\ call'.outcome = "sent"
               /\ st'.last_compensation_time = now
               /\ st'.compensated_target = call'.cmd
               /\ st'.last_sent_compensated_target = call'.cmd ]_vars

C10_Witness ==
    /\ call.valid /\ call.outcome = "failed"
    /\ st.last_compensation_time # NoTime
    /\ st.last_compensation_time < now
    /\ call.cmd # st.compensated_target

\* C11: the update cycle that follows a failed set-temperature call, when
\* with the desired temperature of before the cycle compensation is enabled,
\* the window guard does not block, the backoff has elapsed and the computed
\* target is at least the tolerance away from the thermostat target, issues
\* the command again and leaves desired_temp as it was.
C11_NaturalRetry ==
    [][ (/\ call.valid /\ call.outcome = "failed"
         /\ cycle'.valid
         /\ LET s == [st' EXCEPT !.desired_temp = st.desired_temp]
            IN  /\ s.compensation_enabled
                /\ ~(s.window_open /\ ~s.window_override)
                /\ ~(/\ s.battery_saver_enabled
                     /\ lastDispatch # NoTime
                     /\ now - lastDispatch < conf.backoff_minutes * 60)
                /\ Abs(ExpectedSetpoint(RawTarget(s)) - s.tado_target) >= conf.tolerance)
            => /\ call'.valid /\ Attempted(call'.outcome)
               /\ st'.desired_temp = st.desired_temp ]_vars

\* C12: an update cycle in which a source is absent, unavailable or unknown,
\* or a temperature reads below 5.0, leaves every field of the coordinator
\* as it was, invokes no decision engine and returns the data without
\* raising.
C12_TransientUnavailability ==
    [][ (note'.op = "update" /\ note'.kind \in {"absent", "unavailable", "below5"})
            => /\ st' = st
               /\ ~call'.valid
               /\ note'.result = "skipped" ]_vars

C12_Witness ==
    /\ note.op = "update" /\ note.kind = "below5"
    /\ st.external_temp # None
    /\ st.hvac_action = "heating" /\ st.heating_start_time # NoTime
    /\ st.heating_start_time < now
    /\ st.window_open /\ ~note.window

\* C13: an update cycle in which a value read is not a number leaves the
\* coordinator as it was and returns without raising.
C13_ParseFailure ==
    [][ (note'.op = "update" /\ note'.kind = "nonnumeric")
            => (st' = st /\ note'.result = "skipped") ]_vars

\* C14: async_force_compensation, once readings are known, hands the
\* computed setpoint to the set-temperature service whether or not
\* compensation is enabled, the backoff has elapsed or the change reaches
\* the tolerance, unless window_open is set and window_override is not: then
\* it issues no command and leaves the coordinator as it was.
C14_ForceBypassesAllButWindow ==
    [][ note'.op = "force"
            => IF st.window_open /\ ~st.window_override
                 THEN st' = st /\ ~call'.valid
                 ELSE st.external_temp # None
                        => /\ call'.valid /\ Attempted(call'.outcome)
                           /\ call'.cmd = ExpectedSetpoint(RawTarget(st)) ]_vars

C14_Witness ==
    /\ note.op = "force"
    /\ call.valid /\ call.outcome = "sent"
    /\ ~st.compensation_enabled
    /\ st.battery_saver_enabled
    /\ note.last_compensation_time # NoTime
    /\ now - note.last_compensation_time < conf.backoff_minutes * 60
    /\ Abs(call.cmd - st.tado_target) < conf.tolerance

\* a force request met an open window that is not overridden
C14_WitnessWindow ==
    /\ note.op = "force"
    /\ st.window_open /\ ~st.window_override
    /\ st.external_temp # None
    /\ ~call.valid

\* C15: with window detection enabled, a completed update cycle leaves
\* window_open set exactly when the window sensor reported open and had done
\* so for at least the configured delay.
C15_WindowOpenDelay ==
    (note.op = "update" /\ note.result = "ok" /\ conf.enable_window_detection)
        => (st.window_open <=> (note.window /\ note.window_for >= WindowOpenDelay))

\* C16: the heating-rate history never holds more than MAX_HEATING_CYCLES
\* entries, whatever update cycles, restarts and resets came before, and a
\* sample appended to a full history takes the place of the oldest entry:
\* the entries that were second to last before are first to last-but-one
\* after.
C16_HistoryBounded ==
    /\ Len(st.heating_history) <= MAX_HEATING_CYCLES
    /\ Len(st.stored) <= MAX_HEATING_CYCLES
    /\ (note.op = "learn" /\ note.saved /\ Len(note.before) = MAX_HEATING_CYCLES)
          => /\ Len(st.heating_history) = MAX_HEATING_CYCLES
             /\ \A i \in 1..(MAX_HEATING_CYCLES - 1) :
                    st.heating_history[i] = note.before[i + 1]

\* a sample was appended to a full history whose oldest entry differs from
\* the others
C16_Witness ==
    /\ note.op = "learn" /\ note.saved
    /\ Len(note.before) = MAX_HEATING_CYCLES
    /\ note.before[1] # note.before[2]
    /\ st.heating_history[MAX_HEATING_CYCLES] # note.before[MAX_HEATING_CYCLES]

\* a restart restored a full history
C16_WitnessRestart ==
    /\ note.op = "restart"
    /\ Len(st.heating_history) = MAX_HEATING_CYCLES

\* C17: heating_rate is the arithmetic mean of the heating-rate history, the
\* default when the history is empty (to within a thousandth of a degree
\* per hour).
C17_RateIsMean ==
    IF st.heating_history = << >>
      THEN st.heating_rate = DEFAULT_HEATING_RATE
      ELSE Abs(st.heating_rate * Len(st.heating_history) - Sum(st.heating_history))
             < Len(st.heating_history)

\* The pre-heat time the specification describes: the rise in degrees over the
\* rate in degrees per hour, times 60, inflated by the learning buffer and
\* clamped to the configured range (temperatures in tenths, rate in
\* thousandths).
DescribedPreheatMinutes(target, external_temp, heating_rate, cf) ==
    Max(cf.min_preheat_minutes,
        Min(cf.max_preheat_minutes,
            ((target - external_temp) * 60 * (100 + cf.learning_buffer)) \div heating_rate))

\* C18: in a set_preheat request for a target above external_temp, made
\* with a positive heating_rate (and a desired_temp equal to the requested
\* target), preheat_minutes is ((target - external_temp) / heating_rate) * 60
\* inflated by the learning buffer and clamped to the configured range.
C18_PreheatMinutes ==
    (/\ note.op = "preheat" /\ ~note.raised
     /\ note.external < note.target_temperature
     /\ note.heating_rate > 0
     /\ note.desired = note.target_temperature)
        => note.preheat_minutes =
             DescribedPreheatMinutes(note.target_temperature, note.external,
                                     note.heating_rate, conf)

\* C19: the preheat_minutes of a set_preheat request is 0 exactly when
\* external_temp is at or above the requested target temperature.
C19_PreheatFollowsRequest ==
    (note.op = "preheat" /\ ~note.raised)
        => (note.preheat_minutes = 0 <=> note.external >= note.target_temperature)

C20_WitnessScheduled ==
    /\ note.op = "preheat" /\ ~note.raised
    /\ note.target_time <= now
    /\ st.next_preheat_start # NoTime
    /\ st.next_preheat_start > now

\* C21: async_reset_learning empties the heating-rate history, sets
\* heating_rate to the default and clears the start of the heating phase,
\* and leaves desired_temp, last_sent_compensated_target,
\* last_compensation_time and the window state as they were; the next update
\* cycle that runs to its end and finds the thermostat heating records its
\* own time and external temperature as the start and appends no sample.
C21_ResetLearning ==
    [][ /\ note'.op = "reset" /\ note' # note
            => /\ st'.heating_history = << >>
               /\ st'.heating_rate = DEFAULT_HEATING_RATE
               /\ st'.heating_start_time = NoTime
               /\ st'.heating_start_temp = None
               /\ st'.desired_temp = st.desired_temp
               /\ st'.last_sent_compensated_target = st.last_sent_compensated_target
               /\ st'.last_compensation_time = st.last_compensation_time
               /\ st'.window_open = st.window_open
               /\ st'.window_override = st.window_override
               /\ ~call'.valid
        /\ (note.op = "reset" /\ note'.op = "learn" /\ cycle'.valid
              /\ st'.hvac_action = "heating")
            => /\ st'.heating_start_time = now
               /\ st'.heating_start_temp = st'.external_temp
               /\ ~note'.saved
               /\ st'.heating_history = << >>
               /\ st'.heating_rate = DEFAULT_HEATING_RATE ]_vars

\* the cycle after a reset made in a heating phase old enough to give a
\* sample, with a non-empty history before the reset
C21_Witness ==
    /\ note.op = "learn" /\ note.after = "reset" /\ cycle.valid
    /\ st.hvac_action = "heating"
    /\ st.heating_start_time = now
    /\ now >= MinLearnSeconds
    /\ st.stored # << >>
    /\ st.heating_history = << >>

\* C22: a force_compensation or reset_learning request that names a room
\* issues commands for that room only and leaves the coordinator of every
\* other room as it was, and an exception raised for another room does not
\* end it.
C22_RoomIsolation ==
    (note.op = "force" \/ note.op = "reset")
        => /\ \A r \in Rooms \ {note.entity_id} :
                  st[r] = note.before[r] /\ r \notin note.sent
           /\ note.failed \in {"none", note.entity_id}

\* C23: an update cycle that runs to its end less than 90 seconds after
\* last_compensation_time leaves desired_temp and
\* last_sent_compensated_target as they were, signals no external change
\* and does not invoke the decision engine, whatever target the thermostat
\* reports.
C23_Cooldown ==
    [][ (/\ cycle'.valid
         /\ st.last_compensation_time # NoTime
         /\ now - st.last_compensation_time < 90)
            => /\ st'.desired_temp = st.desired_temp
               /\ st'.last_sent_compensated_target = st.last_sent_compensated_target
               /\ ~cycle'.change
               /\ ~call'.valid ]_vars

\* a cycle 30 or 60 seconds after a command found a target more than 0.4
\* away from the one sent, and a desired temperature away from the target
C23_Witness ==
    /\ cycle.valid
    /\ st.last_compensation_time # NoTime
    /\ now > st.last_compensation_time
    /\ now - st.last_compensation_time < 90
    /\ st.last_sent_compensated_target # None
    /\ Abs(st.tado_target - st.last_sent_compensated_target) > 4
    /\ Abs(st.desired_temp - st.tado_target) > 1

\* C24: over the lifetime of a coordinator the bootstrap branch changes
\* desired_temp in at most one update cycle, and a cycle in which it does
\* signals no external change.
C24_BootstrapOnce ==
    note.op = "reconcile"
        => /\ note.bootstraps <= 1
           /\ (note.bootstrapped /\ cycle.valid) => ~cycle.change

\* C25: the operations on a room exclude one another: at most one engine
\* invocation waits at the service call and no operation starts while one
\* waits; whenever none waits, last_sent_compensated_target, if set, is the
\* setpoint of the last command handed to the service call; and
\* last_compensation_time never decreases.
C25_Serialized ==
    /\ [](Len(suspended) <= 1)
    /\ []((suspended = << >> /\ note.op = "async"
             /\ st.last_sent_compensated_target # None)
            => st.last_sent_compensated_target = note.dispatched)
    /\ [][ /\ suspended # << >>
                => (suspended' = << >> \/ (suspended' = suspended /\ st' = st))
           /\ st'.last_compensation_time >= st.last_compensation_time ]_vars

\* C26: heating_start_time and heating_start_temp are always both set or
\* both unset; after an update cycle that ran to its end they are set
\* exactly when the thermostat's action read in it is heating; a cycle that
\* finds heating with no start recorded takes its own time and external
\* temperature as the start, a cycle that finds heating with a start
\* recorded keeps it, and a cycle that finds another action clears it.
C26_LearnerStateMachine ==
    /\ []((st.heating_start_time = NoTime) <=> (st.heating_start_temp = None))
    /\ [][ cycle'.valid
             => /\ (st'.heating_start_time # NoTime) <=> (st'.hvac_action = "heating")
                /\ (st'.hvac_action = "heating" /\ st.heating_start_time = NoTime)
                      => /\ st'.heating_start_time = now
                         /\ st'.heating_start_temp = st'.external_temp
                /\ (st'.hvac_action = "heating" /\ st.heating_start_time # NoTime)
                      => /\ st'.heating_start_time = st.heating_start_time
                         /\ st'.heating_start_temp = st.heating_start_temp ]_vars

\* a later cycle of a heating phase: the external temperature has moved,
\* the start has not
C26_Witness ==
    /\ cycle.valid
    /\ st.hvac_action = "heating"
    /\ st.heating_start_time # NoTime
    /\ st.heating_start_time < now
    /\ st.heating_start_temp # st.external_temp

\* a cycle that found the thermostat idle after a heating phase
C26_WitnessCleared ==
    /\ cycle.valid
    /\ st.hvac_action = "idle"
    /\ st.heating_start_time = NoTime
    /\ st.heating_history # << >>

\* C27: in a cycle that runs to its end and finds the thermostat heating
\* with a start recorded, a sample is appended to the history (and a save
\* scheduled) exactly when at least 0.33 h have passed since the start and
\* the external temperature has risen by at least 0.1; the sample is the
\* rise over the hours passed, in thousandths of a degree per hour; when
\* none is appended, history, heating_rate and the Store are as before.
C27_SampleAcceptance ==
    (/\ note.op = "sample" /\ cycle.valid
     /\ st.hvac_action = "heating"
     /\ note.heating_start_time # NoTime)
        => LET seconds == now - note.heating_start_time
               rise == st.external_temp - note.heating_start_temp
           IN  IF seconds * 100 >= 33 * 3600 /\ rise >= 1
                 THEN /\ note.saved
                      /\ Len(st.heating_history)
                            = Min(MAX_HEATING_CYCLES, Len(note.heating_history) + 1)
                      /\ st.heating_history[Len(st.heating_history)]
                            = (rise * 360000) \div seconds
                 ELSE /\ ~note.saved
                      /\ st.heating_history = note.heating_history
                      /\ st.heating_rate = note.heating_rate
                      /\ st.stored = note.stored

\* C28: a cycle that comes less than the lockout period after a window
\* sensor changed to closed appends no sample and leaves heating_rate as it
\* was.
C28_WindowCloseLockout ==
    (/\ note.op = "sample" /\ cycle.valid
     /\ note.closed_for # NoTime /\ note.closed_for < WindowCloseLockout)
        => /\ st.heating_history = note.heating_history
           /\ st.heating_rate = note.heating_rate

\* C29: with temperature-drop detection enabled, a cycle that runs to its
\* end leaves a rolling history whose newest sample is the current time and
\* external reading and whose samples are all newer than the drop window;
\* and, when no window sensor reported open, it sets window_open exactly
\* when the thermostat is heating, the rolling history has at least two
\* samples, and the drop from the oldest sample to the current reading
\* exceeds the configured threshold and, divided by the length of the
\* window, the rate threshold.
C29_TemperatureDrop ==
    [][ (cycle'.valid /\ conf.enable_temp_drop_detection /\ note'.op = "drop")
            => LET h == st'.temp_history
                   drop == h[1][2] - st'.external_temp
               IN  /\ h # << >>
                   /\ h[Len(h)] = << now, st'.external_temp >>
                   /\ \A i \in 1..Len(h) :
                          now - h[i][1] < TEMP_DROP_WINDOW_MINUTES * 60
                   /\ \A i \in 1..(Len(h) - 1) : h[i][1] < h[i + 1][1]
                   /\ ~note'.window
                        => (st'.window_open
                              <=> /\ st'.hvac_action = "heating"
                                  /\ Len(h) >= 2
                                  /\ drop > conf.temp_drop_threshold
                                  /\ drop > TEMP_DROP_RATE_THRESHOLD
                                               * TEMP_DROP_WINDOW_MINUTES) ]_vars

\* a drop reported as an open window
C29_Witness ==
    /\ cycle.valid /\ note.op = "drop" /\ ~note.window
    /\ conf.enable_temp_drop_detection
    /\ st.window_open
    /\ Len(st.temp_history) >= 2

\* a drop equal to the rate bound, above the configured threshold, is not
\* reported
C29_WitnessAtBound ==
    /\ cycle.valid /\ note.op = "drop" /\ ~note.window
    /\ st.hvac_action = "heating"
    /\ Len(st.temp_history) >= 2
    /\ st.temp_history[1][2] - st.external_temp > conf.temp_drop_threshold
    /\ ~st.window_open

\* a sample as old as the window has left the rolling history
C29_WitnessPruned ==
    /\ cycle.valid /\ note.op = "drop"
    /\ now >= TEMP_DROP_WINDOW_MINUTES * 60
    /\ Len(st.temp_history) = 2
    /\ st.temp_history[1][1] > 0

\* C30: no command is issued to the thermostat, on any path, while
\* window_open is true and window_override is false.
C30_NoCommandWhileWindowOpen ==
    (call.valid /\ Attempted(call.outcome))
        => ~(st.window_open /\ ~st.window_override)

\* C31: when the setpoint of the thermostat changes only through the
\* commands of the engine, an update cycle after the first command signals
\* no external change, does not clear last_sent_compensated_target and
\* leaves desired_temp alone; and once the thermostat reports the value
\* last sent, with no command on its way, the cycle issues no command.
C31_OwnCommandIsNotExternal ==
    [][ (cycle'.valid /\ Thermostat.commanded)
            => /\ ~cycle'.change
               /\ st'.last_sent_compensated_target = st.last_sent_compensated_target
               /\ st'.desired_temp = st.desired_temp
               /\ (Thermostat.pending = << >>
                     /\ Thermostat.target = st.last_sent_compensated_target)
                    => ~(call'.valid /\ Attempted(call'.outcome)) ]_vars

\* C32: desired_temp lies within [MIN_TEMP, MAX_TEMP] in every reachable
\* state.
C32_DesiredInRange ==
    /\ MIN_TEMP <= st.desired_temp
    /\ st.desired_temp <= MAX_TEMP

\* C33: the stored history equals the in-memory heating-rate history (a
\* save is complete at the end of the step that scheduled it), so that a
\* restart restores the history in effect before it.
C33_StoreTracksHistory ==
    st.stored = st.heating_history

\* C34: a force_compensation request made while the external temperature
\* of some room is still unknown raises no error and handles every room.
C34_RequestBeforeSnapshot ==
    (/\ note.op = "force"
     /\ \E r \in Rooms : note.before[r].external_temp = None)
        => note.failed = "none"

====
